---- MODULE Spec2Model ----
(***************************************************************************)
(* Model of rl_coach/off_policy_evaluators/ope_manager.py: OpeManager, its *)
(* fixed-data cache, the shared-statistics builder                         *)
(* (_prepare_ope_shared_stats) and evaluate.                               *)
(*                                                                         *)
(* Numbers.  Probabilities are integer weights in units of 1/NumActions    *)
(* (a distribution sums to NumActions), so a product "probability *        *)
(* reward" is an integer in the same unit.  A quotient of two              *)
(* probabilities is kept exact as the pair <<numerator, denominator>>; a   *)
(* denominator 0 stands for the inf/nan that numpy's true division yields. *)
(* Actions are 1..NumActions (the source counts from 0); the batch index i *)
(* counts from 0 as in the source.                                         *)
(***************************************************************************)
EXTENDS Integers, Sequences, FiniteSets, TLC

\* ------------------------------------------------------------------ bounds
MaxTrans == 3       \* transitions in the pool (longest stream)
MaxBatch == 2       \* largest batch size handed to evaluate
MaxCalls == 3       \* evaluate calls on one OpeManager
NumActions == 2     \* size of the action set
NumModels == 2      \* candidate value models that may be handed in

Trans == 1..MaxTrans
Actions == 1..NumActions
BatchSizes == (-1)..MaxBatch
QNetworks == 1..NumModels
Discounts == {9}

\* ------------------------------------------------------------ Python values
None == [some |-> FALSE, v |-> <<>>]
Some(x) == [some |-> TRUE, v |-> x]
PyList(x) == [kind |-> "list", v |-> x]
NdArray(x) == [kind |-> "ndarray", v |-> x]

RECURSIVE Concatenate(_)
\* np.concatenate(list_of_arrays, axis=0) of a non-empty list
Concatenate(ll) == IF ll = <<>> THEN <<>> ELSE Head(ll) \o Concatenate(Tail(ll))

Min(a, b) == IF a < b THEN a ELSE b

\* dataset[lo:hi] on a Python list (0-based, hi excluded, clipped)
Slice(s, lo, hi) == SubSeq(s, lo + 1, Min(hi, Len(s)))

\* math.ceil(n / b) for b # 0 (true division, then ceiling)
CeilDiv(n, b) == IF b > 0 THEN (n + b - 1) \div b ELSE -(n \div (-b))

\* ------------------------------------------------- logged data (the dataset)
\* One logged step per id: state, action taken, reward, behaviour policy.
Uniform == [a \in Actions |-> 1]
Greedy(b) == [a \in Actions |-> IF a = b THEN NumActions ELSE 0]

TState(t) == t
TAction(t) == 1 + (t % NumActions)
TReward(t) == 10 + t
TProbs(t) == IF t % 3 = 1 THEN Uniform ELSE Greedy(1)

Run(a, b) == [k \in 1..(b - a + 1) |-> a + k - 1]

\* Episode collections handed to evaluate: the first n transitions, in one
\* episode or split in two; the empty collection; one empty episode.
EpisodeCollections ==
    {<<>>, << <<>> >>}
    \cup {<<Run(1, n)>> : n \in Trans}
    \cup {<<Run(1, p[1]), Run(p[1] + 1, p[2])>> : p \in {q \in Trans \X Trans : q[1] < q[2]}}

\* [t for e in dataset_as_episodes for t in e.transitions]
Flatten(episodes) == Concatenate(episodes)

\* ------------------------------------------------------ the two models
\* reward_model.predict(states): one row of predicted rewards per state
RewardRow(s) == [a \in Actions |-> s * a]
RewardModelPredict(batch) == [j \in 1..Len(batch) |-> RewardRow(TState(batch[j]))]

\* q_network.predict(states, outputs=[q_values, softmax]) of candidate model m
QRow(m, s) == [a \in Actions |-> m * s + a]
SoftmaxRow(m, s) == IF m = 1 THEN Uniform ELSE Greedy(1 + ((s + m) % NumActions))
QValues(m, batch) == [j \in 1..Len(batch) |-> QRow(m, TState(batch[j]))]
SmValues(m, batch) == [j \in 1..Len(batch) |-> SoftmaxRow(m, TState(batch[j]))]

\* A model may be configured to answer with a number of rows other than the
\* number of states it is handed: d rows more (the last row repeated) or
\* d rows fewer (the last rows dropped); d = 0 is the well-behaved model.
RowDeltas == {-1, 0, 1}
Rows(x, d) == IF d < 0 THEN SubSeq(x, 1, Len(x) + d)
              ELSE IF d > 0 THEN Append(x, x[Len(x)])
              ELSE x
WellBehaved == [reward_model |-> 0, q_network |-> 0]
Misconfigured == [reward_model : RowDeltas, q_network : RowDeltas] \ {WellBehaved}

\* -------------------------------------------------------------- numpy
RECURSIVE SumTo(_, _)
SumTo(f, n) == IF n = 0 THEN 0 ELSE f[n] + SumTo(f, n - 1)

\* np.sum(p * r) of two rows
RowDot(p, r) == SumTo([a \in Actions |-> p[a] * r[a]], NumActions)

\* shapes (n, A) and (m, A) broadcast iff n = m or one of them is 1
Broadcastable(n, m) == n = m \/ n = 1 \/ m = 1
BroadcastLen(n, m) == IF n = 1 THEN m ELSE n
Pick(x, j) == IF Len(x) = 1 THEN x[1] ELSE x[j]

\* np.sum(x * y, axis=1) of two arrays of rows, with broadcasting
SumProductAxis1(x, y) ==
    [j \in 1..BroadcastLen(Len(x), Len(y)) |-> RowDot(Pick(x, j), Pick(y, j))]

\* x / y of two vectors, with broadcasting; exact quotient as a pair
TrueDivide(x, y) ==
    [j \in 1..BroadcastLen(Len(x), Len(y)) |-> <<Pick(x, j), Pick(y, j)>>]

\* probs[range(len(actions)), actions]: row k at column actions[k]
TakeAtActions(probs, actions) == [k \in 1..Len(actions) |-> probs[k][actions[k]]]

\* ------------------------------------------------------------------ state
VARIABLES
    pc,                         \* where the evaluate call stands; "idle" between calls
    calls,                      \* evaluate calls made so far
    missing,                    \* transitions whose info lacks 'all_action_probabilities'
    model_rows,                 \* rows each model answers with, relative to the states handed
    info,                       \* per transition: the values update_info attached
    \* OpeManager attributes (lines 39-47, 99)
    dataset_as_transitions,
    all_reward_model_rewards,
    all_reward_model_rewards_np,
    all_old_policy_probs,
    all_rewards,
    all_actions,
    has_gathered_fixed_data,
    \* arguments of the evaluate call in progress / last made
    dataset_as_episodes,
    batch_size,
    discount_factor,
    q_network,
    \* locals of _prepare_ope_shared_stats
    i,
    all_policy_probs,
    all_v_values_reward_model_based,
    \* locals of evaluate
    ope_shared_stats,
    dr_ret,
    seq_dr,
    \* what the last evaluate call gave its caller
    outcome,                    \* "none" | "returned" | "raised"
    error,                      \* the exception raised, "" if none
    report,                     \* the OpeEstimation returned
    first_outcome,              \* how the first evaluate call ended, "none" until it has
    log,                        \* collaborator calls made by the call, in order
    \* history, read by the properties only
    pre,                        \* the OpeManager and the transitions as the call found them
    flattened_from,             \* the episode collection line 132 flattened
    frozen_cache,               \* the cache as line 104 left it
    returned,                   \* the records the builder returned, oldest first
    rm_queried                  \* per transition: reward_model.predict calls that held it

self_vars == <<dataset_as_transitions, all_reward_model_rewards, all_reward_model_rewards_np,
               all_old_policy_probs, all_rewards, all_actions, has_gathered_fixed_data>>
arg_vars == <<dataset_as_episodes, batch_size, discount_factor, q_network>>
builder_locals == <<i, all_policy_probs, all_v_values_reward_model_based>>
evaluate_locals == <<ope_shared_stats, dr_ret, seq_dr>>
result_vars == <<outcome, error, report, first_outcome>>
history == <<pre, flattened_from, frozen_cache, returned, rm_queried>>
env == <<missing, model_rows>>
vars == <<pc, calls, env, info, self_vars, arg_vars, builder_locals, evaluate_locals,
          result_vars, log, history>>

\* the fixed-data cache
Cache == [all_reward_model_rewards |-> all_reward_model_rewards,
          all_reward_model_rewards_np |-> all_reward_model_rewards_np,
          all_old_policy_probs |-> all_old_policy_probs,
          all_rewards |-> all_rewards,
          all_actions |-> all_actions]

\* everything a call can change: the OpeManager's attributes and the transitions
Snapshot == [dataset_as_transitions |-> dataset_as_transitions,
             cache |-> Cache,
             has_gathered_fixed_data |-> has_gathered_fixed_data,
             info |-> info]

NoInfo == [has |-> FALSE, q_value |-> <<>>, softmax_policy_prob |-> <<>>,
           v_value_q_model_based |-> 0]

\* OpeManager.__init__
Init ==
    /\ pc = "idle"
    /\ calls = 0
    /\ missing \in {{}} \cup {{t} : t \in Trans}
    /\ model_rows = WellBehaved
    /\ info = [t \in Trans |-> NoInfo]
    /\ dataset_as_transitions = None
    /\ all_reward_model_rewards = <<>>
    /\ all_reward_model_rewards_np = None
    /\ all_old_policy_probs = PyList(<<>>)
    /\ all_rewards = PyList(<<>>)
    /\ all_actions = PyList(<<>>)
    /\ has_gathered_fixed_data = FALSE
    /\ dataset_as_episodes = <<>>
    /\ batch_size = 1
    /\ discount_factor = 9
    /\ q_network = 1
    /\ i = 0
    /\ all_policy_probs = <<>>
    /\ all_v_values_reward_model_based = <<>>
    /\ ope_shared_stats = None
    /\ dr_ret = <<>>
    /\ seq_dr = None
    /\ outcome = "none"
    /\ error = ""
    /\ report = None
    /\ first_outcome = "none"
    /\ log = <<>>
    /\ pre = Snapshot
    /\ flattened_from = None
    /\ frozen_cache = None
    /\ returned = <<>>
    /\ rm_queried = [t \in Trans |-> 0]

\* how the first call ended, once a call ends with outcome o
FirstOutcome(o) == IF first_outcome = "none" THEN o ELSE first_outcome

\* the call ends by raising exc: locals are dropped, nothing is returned
Raise(exc) ==
    /\ first_outcome' = FirstOutcome("raised")
    /\ pc' = "idle"
    /\ outcome' = "raised"
    /\ error' = exc
    /\ report' = None
    /\ i' = 0
    /\ all_policy_probs' = <<>>
    /\ all_v_values_reward_model_based' = <<>>
    /\ dr_ret' = <<>>
    /\ seq_dr' = None

\* line 131's test left out: every call flattens the episodes it is handed
FlattenEveryCall(stored, episodes) == Some(Flatten(episodes))

\* lines 131-132: the flattening is computed only while none is stored
StoredTransitions(stored, episodes) ==
    IF stored.some THEN stored ELSE Some(Flatten(episodes))

\* evaluate is entered (lines 131-135) and the builder reaches its loop head
\* (line 67); math.ceil(len / 0) raises ZeroDivisionError
Evaluate(episodes, bs, df, qn) ==
    /\ pc = "idle"
    /\ calls < MaxCalls
    /\ calls' = calls + 1
    /\ dataset_as_episodes' = episodes
    /\ batch_size' = bs
    /\ discount_factor' = df
    /\ q_network' = qn
    /\ dataset_as_transitions' = StoredTransitions(dataset_as_transitions, episodes)
    /\ ope_shared_stats' = None
    /\ log' = <<>>
    /\ pre' = Snapshot
    /\ flattened_from' = IF dataset_as_transitions.some THEN flattened_from ELSE Some(episodes)
    /\ UNCHANGED <<frozen_cache, returned, rm_queried>>
    /\ IF bs = 0
         THEN Raise("ZeroDivisionError")
         ELSE /\ pc' = "loop"
              /\ outcome' = "none"
              /\ error' = ""
              /\ report' = None
              /\ first_outcome' = first_outcome
              /\ i' = 0
              /\ all_policy_probs' = <<>>
              /\ all_v_values_reward_model_based' = <<>>
              /\ dr_ret' = <<>>
              /\ seq_dr' = None
    /\ UNCHANGED <<env, info, all_reward_model_rewards, all_reward_model_rewards_np,
                   all_old_policy_probs, all_rewards, all_actions, has_gathered_fixed_data>>

\* ------------------------------------------- _prepare_ope_shared_stats
\* range(math.ceil(len(dataset_as_transitions) / batch_size)), line 67
NumBatches == CeilDiv(Len(dataset_as_transitions.v), batch_size)

\* line 68: dataset_as_transitions[i * batch_size: (i + 1) * batch_size]
batch == Slice(dataset_as_transitions.v, i * batch_size, (i + 1) * batch_size)

\* lines 71 and 98: `if not self.has_gathered_fixed_data`
Gathering(flag) == ~flag

\* Batch.rewards(), Batch.actions(), Batch.info('all_action_probabilities')
BatchRewards(b) == [j \in 1..Len(b) |-> TReward(b[j])]
BatchActions(b) == [j \in 1..Len(b) |-> TAction(b[j])]
BatchProbs(b) == [j \in 1..Len(b) |-> TProbs(b[j])]
HasAllProbs(b) == \A j \in 1..Len(b) : b[j] \notin missing

\* lines 75-77: the behaviour probability of each action taken
OldPolicyProbs(b) == TakeAtActions(BatchProbs(b), BatchActions(b))

\* `lst.append(x)` on one of the cache's lists
ListAppend(lst, x) == PyList(Append(lst.v, x))

\* line 86: self.all_reward_model_rewards[i], the i-th entry of the list
RewardModelRewardsAt(lst, idx) == lst[idx + 1]

\* the cache's lists after lines 72-77 ran in this iteration
rm_after == IF Gathering(has_gathered_fixed_data)
              THEN Append(all_reward_model_rewards,
                          Rows(RewardModelPredict(batch), model_rows.reward_model))
              ELSE all_reward_model_rewards
\* line 73 moved out of the `if` of line 71: rewards are appended on every pass
rewards_appended_always == PyList(Append(all_rewards.v, BatchRewards(batch)))

rewards_after == IF Gathering(has_gathered_fixed_data)
                   THEN ListAppend(all_rewards, BatchRewards(batch))
                   ELSE all_rewards
actions_after == IF Gathering(has_gathered_fixed_data)
                   THEN ListAppend(all_actions, BatchActions(batch))
                   ELSE all_actions
old_after == IF Gathering(has_gathered_fixed_data)
               THEN ListAppend(all_old_policy_probs, OldPolicyProbs(batch))
               ELSE all_old_policy_probs

\* a call of a collaborator on the transitions b, and whether it returned
Called(op, b, ok) == [op |-> op, batch |-> b, ok |-> ok]
\* line 72 moved out of the `if` of line 71: the reward model is asked on every pass
LogRewardModelAlways(ok) == Append(log, Called("reward_model.predict", batch, ok))

LogRewardModel(ok) == IF Gathering(has_gathered_fixed_data)
                        THEN Append(log, Called("reward_model.predict", batch, ok))
                        ELSE log
LogQNetwork(ok) == Append(LogRewardModel(TRUE), Called("q_network.predict", batch, ok))

\* lines 81-83 and 88: the value model's two outputs for the batch, and the
\* value estimate based on its Q-values
q_values == Rows(QValues(q_network, batch), model_rows.q_network)
sm_values == Rows(SmValues(q_network, batch), model_rows.q_network)
v_values_q_model_based == SumProductAxis1(sm_values, q_values)

\* lines 92-95 with index 0 for j: every transition gets the batch's first row
DerivedInfoFirstRow(j) ==
    [has |-> TRUE,
     q_value |-> q_values[1],
     softmax_policy_prob |-> sm_values[1],
     v_value_q_model_based |-> v_values_q_model_based[1]]

\* lines 90-96: t.update_info({...}) for the j-th transition of the batch
DerivedInfo(j) ==
    [has |-> TRUE,
     q_value |-> q_values[j],
     softmax_policy_prob |-> sm_values[j],
     v_value_q_model_based |-> v_values_q_model_based[j]]
InBatch(t, b) == \E j \in 1..Len(b) : b[j] = t
IndexInBatch(t, b) == CHOOSE j \in 1..Len(b) : b[j] = t

\* lines 90-96: the transitions of the batch are updated in order, and
\* q_values[j] raises IndexError at the first j past the value model's rows
ReachesUpdate(j) == j <= Len(q_values)
info_after == [t \in Trans |->
                  IF InBatch(t, batch) /\ ReachesUpdate(IndexInBatch(t, batch))
                    THEN DerivedInfo(IndexInBatch(t, batch))
                    ELSE info[t]]

\* the reward model was asked about the batch once more (line 72)
rm_queried_after ==
    IF Gathering(has_gathered_fixed_data)
      THEN [t \in Trans |-> rm_queried[t] + (IF InBatch(t, batch) THEN 1 ELSE 0)]
      ELSE rm_queried

\* line 86: IndexError of self.all_reward_model_rewards[i], or the
\* broadcasting ValueError of the product
Line86Error ==
    IF i + 1 > Len(rm_after) THEN "IndexError"
    ELSE IF ~Broadcastable(Len(sm_values), Len(RewardModelRewardsAt(rm_after, i)))
         THEN "ValueError"
    ELSE ""

\* where an iteration of the loop raises, if it does, given that the models
\* themselves answer: KeyError at line 75, the errors of line 86, IndexError
\* at line 92
BatchError ==
    IF Gathering(has_gathered_fixed_data) /\ ~HasAllProbs(batch) THEN "KeyError"
    ELSE IF Line86Error # "" THEN Line86Error
    ELSE IF ~ReachesUpdate(Len(batch)) THEN "IndexError"
    ELSE ""

\* one iteration of the loop of lines 67-96 that runs to its end
BuilderBatch ==
    /\ pc = "loop"
    /\ i < NumBatches
    /\ BatchError = ""
    /\ all_reward_model_rewards' = rm_after
    /\ all_rewards' = rewards_after
    /\ all_actions' = actions_after
    /\ all_old_policy_probs' = old_after
    /\ all_policy_probs' = Append(all_policy_probs, sm_values)
    /\ all_v_values_reward_model_based' =
           Append(all_v_values_reward_model_based,
                  SumProductAxis1(sm_values, RewardModelRewardsAt(rm_after, i)))
    /\ info' = info_after
    /\ log' = LogQNetwork(TRUE)
    /\ rm_queried' = rm_queried_after
    /\ i' = i + 1
    /\ UNCHANGED <<pc, calls, env, dataset_as_transitions, all_reward_model_rewards_np,
                   has_gathered_fixed_data, arg_vars, evaluate_locals, result_vars,
                   pre, flattened_from, frozen_cache, returned>>

\* one iteration that raises.  exc "RewardModelError" / "QNetworkError": the
\* model's predict raises (lines 72, 81); otherwise the error of BatchError.
\* What ran before the raising line stays done.
BuilderBatchRaises(exc) ==
    /\ pc = "loop"
    /\ i < NumBatches
    /\ \/ /\ exc = "RewardModelError"
          /\ Gathering(has_gathered_fixed_data)
          /\ log' = LogRewardModel(FALSE)
          /\ UNCHANGED <<all_reward_model_rewards, all_rewards, all_actions,
                         all_old_policy_probs, info>>
       \/ /\ exc = "KeyError"
          /\ BatchError = exc
          /\ log' = LogRewardModel(TRUE)
          /\ all_reward_model_rewards' = rm_after
          /\ all_rewards' = rewards_after
          /\ all_actions' = actions_after
          /\ UNCHANGED <<all_old_policy_probs, info>>
       \/ /\ \/ exc = "QNetworkError" /\ BatchError # "KeyError"
             \/ exc \in {"IndexError", "ValueError"} /\ BatchError = exc
          /\ log' = LogQNetwork(exc # "QNetworkError")
          /\ all_reward_model_rewards' = rm_after
          /\ all_rewards' = rewards_after
          /\ all_actions' = actions_after
          /\ all_old_policy_probs' = old_after
          /\ info' = IF exc = "IndexError" /\ Line86Error = "" THEN info_after ELSE info
    /\ rm_queried' = rm_queried_after
    /\ Raise(exc)
    /\ UNCHANGED <<calls, env, dataset_as_transitions, all_reward_model_rewards_np,
                   has_gathered_fixed_data, arg_vars, ope_shared_stats,
                   pre, flattened_from, frozen_cache, returned>>

\* lines 98-104 reach line 104 iff every np.concatenate gets a non-empty list
\* (rewards and actions are appended whenever the predictions are)
ConcatError ==
    IF ~Gathering(has_gathered_fixed_data) THEN ""
    ELSE IF all_reward_model_rewards = <<>> THEN "line 99"
    ELSE IF all_old_policy_probs.v = <<>> THEN "line 100"
    ELSE ""
frozen == Gathering(has_gathered_fixed_data) /\ ConcatError = ""

\* the attributes after lines 98-104
np_after == IF Gathering(has_gathered_fixed_data) /\ ConcatError # "line 99"
              THEN Some(Concatenate(all_reward_model_rewards))
              ELSE all_reward_model_rewards_np
old_frozen == IF frozen THEN NdArray(Concatenate(all_old_policy_probs.v))
              ELSE all_old_policy_probs
rewards_frozen == IF frozen THEN NdArray(Concatenate(all_rewards.v)) ELSE all_rewards
actions_frozen == IF frozen THEN NdArray(Concatenate(all_actions.v)) ELSE all_actions
\* line 104 left out: the flag is never set
flag_never_set == has_gathered_fixed_data

\* line 104
flag_after == has_gathered_fixed_data \/ frozen
cache_after == [all_reward_model_rewards |-> all_reward_model_rewards,
                all_reward_model_rewards_np |-> np_after,
                all_old_policy_probs |-> old_frozen,
                all_rewards |-> rewards_frozen,
                all_actions |-> actions_frozen]

\* line 110: all_policy_probs[np.arange(self.all_actions.shape[0]), self.all_actions]
NewPolicyProb(probs, actions) == TakeAtActions(probs, actions)

\* line 113: the record returned
OpeSharedStats(rm_np, probs, v_rm, rewards, actions, old_probs, new_prob, rho) ==
    [all_reward_model_rewards |-> rm_np,
     all_policy_probs |-> probs,
     all_v_values_reward_model_based |-> v_rm,
     all_rewards |-> rewards,
     all_actions |-> actions,
     all_old_policy_probs |-> old_probs,
     new_policy_prob |-> new_prob,
     rho_all_dataset |-> rho]

\* where lines 98-111 raise, if they do: np.concatenate of an empty list
\* (lines 99, 100, 106), an index past the last row (line 110), vectors that
\* do not broadcast (line 111)
ReturnError ==
    IF ConcatError # "" THEN "ValueError"
    ELSE IF all_policy_probs = <<>> THEN "ValueError"
    ELSE IF Len(actions_frozen.v) > Len(Concatenate(all_policy_probs)) THEN "IndexError"
    ELSE IF ~Broadcastable(Len(actions_frozen.v), Len(old_frozen.v)) THEN "ValueError"
    ELSE ""

\* lines 98-115 after the last iteration, the record is returned to evaluate
BuilderReturn ==
    /\ pc = "loop"
    /\ ~(i < NumBatches)
    /\ ReturnError = ""
    /\ all_reward_model_rewards_np' = np_after
    /\ all_old_policy_probs' = old_frozen
    /\ all_rewards' = rewards_frozen
    /\ all_actions' = actions_frozen
    /\ has_gathered_fixed_data' = flag_after
    /\ LET probs == Concatenate(all_policy_probs)
           new_prob == NewPolicyProb(probs, actions_frozen.v)
       IN ope_shared_stats' =
              Some(OpeSharedStats(np_after.v, probs,
                                  Concatenate(all_v_values_reward_model_based),
                                  rewards_frozen.v, actions_frozen.v, old_frozen.v,
                                  new_prob, TrueDivide(new_prob, old_frozen.v)))
    /\ pc' = "doubly_robust"
    /\ i' = 0
    /\ all_policy_probs' = <<>>
    /\ all_v_values_reward_model_based' = <<>>
    /\ frozen_cache' = IF frozen THEN Some(cache_after) ELSE frozen_cache
    /\ returned' = Append(returned, [call |-> calls, batch_size |-> batch_size,
                                     q_network |-> q_network,
                                     stats |-> ope_shared_stats'.v])
    /\ UNCHANGED <<calls, env, info, dataset_as_transitions, all_reward_model_rewards,
                   arg_vars, dr_ret, seq_dr, result_vars, log, pre, flattened_from,
                   rm_queried>>

\* lines 98-111 raise; the assignments made before the raising line stay
BuilderReturnRaises ==
    /\ pc = "loop"
    /\ ~(i < NumBatches)
    /\ ReturnError # ""
    /\ all_reward_model_rewards_np' = np_after
    /\ all_old_policy_probs' = old_frozen
    /\ all_rewards' = rewards_frozen
    /\ all_actions' = actions_frozen
    /\ has_gathered_fixed_data' = flag_after
    /\ Raise(ReturnError)
    /\ frozen_cache' = IF frozen THEN Some(cache_after) ELSE frozen_cache
    /\ UNCHANGED <<calls, env, info, dataset_as_transitions, all_reward_model_rewards,
                   arg_vars, ope_shared_stats, log, pre, flattened_from, returned,
                   rm_queried>>

\* ------------------------------------------------ estimator collaborators
\* Their mathematics is not part of ope_manager.py: a result is kept as the
\* application of the estimator to the arguments it was handed.
DoublyRobustEvaluate(stats) ==
    <<[est |-> "ips", of |-> stats], [est |-> "dm", of |-> stats], [est |-> "dr", of |-> stats]>>
SequentialDoublyRobustEvaluate(episodes, df) ==
    [est |-> "seq_dr", episodes |-> episodes, discount_factor |-> df]
WeightedImportanceSamplingEvaluate(episodes) == [est |-> "wis", episodes |-> episodes]

\* line 141 with line 137's unpacking
OpeEstimation(ips_dm_dr, seq, wis) ==
    [ips |-> ips_dm_dr[1], dm |-> ips_dm_dr[2], dr |-> ips_dm_dr[3], seq_dr |-> seq, wis |-> wis]

\* line 137 followed at once by line 139: line 138 is left out
DoublyRobustSkipsSequential ==
    /\ pc = "doubly_robust"
    /\ \/ /\ log' = Append(log, Called("doubly_robust.evaluate", <<>>, TRUE))
          /\ dr_ret' = DoublyRobustEvaluate(ope_shared_stats.v)
          /\ pc' = "weighted_importance_sampling"
          /\ UNCHANGED <<seq_dr, result_vars, builder_locals>>
       \/ /\ log' = Append(log, Called("doubly_robust.evaluate", <<>>, FALSE))
          /\ Raise("EstimatorError")
    /\ UNCHANGED <<calls, env, info, self_vars, arg_vars, ope_shared_stats, history>>

\* line 137
DoublyRobust ==
    /\ pc = "doubly_robust"
    /\ \/ /\ log' = Append(log, Called("doubly_robust.evaluate", <<>>, TRUE))
          /\ dr_ret' = DoublyRobustEvaluate(ope_shared_stats.v)
          /\ pc' = "sequential_doubly_robust"
          /\ UNCHANGED <<seq_dr, result_vars, builder_locals>>
       \/ /\ log' = Append(log, Called("doubly_robust.evaluate", <<>>, FALSE))
          /\ Raise("EstimatorError")
    /\ UNCHANGED <<calls, env, info, self_vars, arg_vars, ope_shared_stats, history>>

\* line 138 wrapped in a handler that swallows the estimator's failure
SequentialDoublyRobustSwallows ==
    /\ pc = "sequential_doubly_robust"
    /\ \E ok \in BOOLEAN :
          log' = Append(log, Called("sequential_doubly_robust.evaluate", <<>>, ok))
    /\ seq_dr' = Some(SequentialDoublyRobustEvaluate(dataset_as_episodes, discount_factor))
    /\ pc' = "weighted_importance_sampling"
    /\ UNCHANGED <<dr_ret, result_vars, builder_locals>>
    /\ UNCHANGED <<calls, env, info, self_vars, arg_vars, ope_shared_stats, history>>

\* line 138
SequentialDoublyRobust ==
    /\ pc = "sequential_doubly_robust"
    /\ \/ /\ log' = Append(log, Called("sequential_doubly_robust.evaluate", <<>>, TRUE))
          /\ seq_dr' = Some(SequentialDoublyRobustEvaluate(dataset_as_episodes,
                                                           discount_factor))
          /\ pc' = "weighted_importance_sampling"
          /\ UNCHANGED <<dr_ret, result_vars, builder_locals>>
       \/ /\ log' = Append(log, Called("sequential_doubly_robust.evaluate", <<>>, FALSE))
          /\ Raise("EstimatorError")
    /\ UNCHANGED <<calls, env, info, self_vars, arg_vars, ope_shared_stats, history>>

\* lines 139-141: the last estimator, then the report is returned
WeightedImportanceSampling ==
    /\ pc = "weighted_importance_sampling"
    /\ \/ /\ log' = Append(log, Called("weighted_importance_sampling.evaluate", <<>>, TRUE))
          /\ report' = Some(OpeEstimation(dr_ret, seq_dr.v,
                                          WeightedImportanceSamplingEvaluate(dataset_as_episodes)))
          /\ pc' = "idle"
          /\ outcome' = "returned"
          /\ error' = ""
          /\ first_outcome' = FirstOutcome("returned")
          /\ dr_ret' = <<>>
          /\ seq_dr' = None
          /\ UNCHANGED builder_locals
       \/ /\ log' = Append(log, Called("weighted_importance_sampling.evaluate", <<>>, FALSE))
          /\ Raise("EstimatorError")
    /\ UNCHANGED <<calls, env, info, self_vars, arg_vars, ope_shared_stats, history>>

BatchExceptions == {"RewardModelError", "KeyError", "QNetworkError", "IndexError", "ValueError"}

Next ==
    \/ \E episodes \in EpisodeCollections, bs \in BatchSizes, df \in Discounts, qn \in QNetworks :
           Evaluate(episodes, bs, df, qn)
    \/ BuilderBatch
    \/ \E exc \in BatchExceptions : BuilderBatchRaises(exc)
    \/ BuilderReturn
    \/ BuilderReturnRaises
    \/ DoublyRobust
    \/ SequentialDoublyRobust
    \/ WeightedImportanceSampling

Spec == Init /\ [][Next]_vars

\* the same OpeManager handed misconfigured models: at least one of the two
\* answers with a wrong number of rows; every transition has its
\* 'all_action_probabilities'
InitMisconfigured ==
    /\ pc = "idle"
    /\ calls = 0
    /\ missing = {}
    /\ model_rows \in Misconfigured
    /\ info = [t \in Trans |-> NoInfo]
    /\ dataset_as_transitions = None
    /\ all_reward_model_rewards = <<>>
    /\ all_reward_model_rewards_np = None
    /\ all_old_policy_probs = PyList(<<>>)
    /\ all_rewards = PyList(<<>>)
    /\ all_actions = PyList(<<>>)
    /\ has_gathered_fixed_data = FALSE
    /\ dataset_as_episodes = <<>>
    /\ batch_size = 1
    /\ discount_factor = 9
    /\ q_network = 1
    /\ i = 0
    /\ all_policy_probs = <<>>
    /\ all_v_values_reward_model_based = <<>>
    /\ ope_shared_stats = None
    /\ dr_ret = <<>>
    /\ seq_dr = None
    /\ outcome = "none"
    /\ error = ""
    /\ report = None
    /\ first_outcome = "none"
    /\ log = <<>>
    /\ pre = Snapshot
    /\ flattened_from = None
    /\ frozen_cache = None
    /\ returned = <<>>
    /\ rm_queried = [t \in Trans |-> 0]

SpecMisconfigured == InitMisconfigured /\ [][Next]_vars

\* ============================================================ properties
stream == dataset_as_transitions.v
N == Len(stream)
BuilderReturned == ope_shared_stats.some
stats == ope_shared_stats.v
LaterCall == calls > 1

\* what transition t contributes to each array of the record, under model qn
ExpectedRewardModelRewards(t) == RewardRow(TState(t))
ExpectedPolicyProbs(qn, t) == SoftmaxRow(qn, TState(t))
ExpectedVRewardModel(qn, t) == RowDot(SoftmaxRow(qn, TState(t)), RewardRow(TState(t)))
ExpectedOldProb(t) == TProbs(t)[TAction(t)]
ExpectedNewProb(qn, t) == SoftmaxRow(qn, TState(t))[TAction(t)]

ArrayLengths(r) ==
    {Len(r.all_reward_model_rewards), Len(r.all_policy_probs),
     Len(r.all_v_values_reward_model_based), Len(r.all_rewards), Len(r.all_actions),
     Len(r.all_old_policy_probs), Len(r.new_policy_prob), Len(r.rho_all_dataset)}

\* equality of two cache attributes, a list never equal to an ndarray
SameArray(x, y) == x.kind = y.kind /\ x.v = y.v
SameCache(c, d) ==
    /\ c.all_reward_model_rewards = d.all_reward_model_rewards
    /\ c.all_reward_model_rewards_np = d.all_reward_model_rewards_np
    /\ SameArray(c.all_old_policy_probs, d.all_old_policy_probs)
    /\ SameArray(c.all_rewards, d.all_rewards)
    /\ SameArray(c.all_actions, d.all_actions)

\* C1 (alignment): in every record the builder returns, each of the eight
\* arrays has one entry per transition of the stream, and entry k of each
\* array is the value of the k-th transition of the stream.
C1_Alignment ==
    BuilderReturned =>
        /\ ArrayLengths(stats) = {N}
        /\ \A k \in 1..N :
              /\ stats.all_reward_model_rewards[k] = ExpectedRewardModelRewards(stream[k])
              /\ stats.all_policy_probs[k] = ExpectedPolicyProbs(q_network, stream[k])
              /\ stats.all_v_values_reward_model_based[k]
                     = ExpectedVRewardModel(q_network, stream[k])
              /\ stats.all_rewards[k] = TReward(stream[k])
              /\ stats.all_actions[k] = TAction(stream[k])
              /\ stats.all_old_policy_probs[k] = ExpectedOldProb(stream[k])
              /\ stats.new_policy_prob[k] = ExpectedNewProb(q_network, stream[k])
              /\ stats.rho_all_dataset[k]
                     = <<ExpectedNewProb(q_network, stream[k]), ExpectedOldProb(stream[k])>>

\* C2 (value-estimate consistency): in every record the builder returns,
\* all_v_values_reward_model_based[k] is the sum over the actions of
\* all_policy_probs[k][a] * all_reward_model_rewards[k][a].
C2_ValueEstimate ==
    BuilderReturned =>
        /\ Len(stats.all_v_values_reward_model_based) = N
        /\ Len(stats.all_policy_probs) = N
        /\ Len(stats.all_reward_model_rewards) = N
        /\ \A k \in 1..N :
              stats.all_v_values_reward_model_based[k]
                  = SumTo([a \in Actions |-> stats.all_policy_probs[k][a]
                                             * stats.all_reward_model_rewards[k][a]],
                          NumActions)

\* C3 (cache idempotence): once line 104 has frozen the cache, the cache
\* keeps the contents, lengths and order it was frozen with, through every
\* later call and whatever value model that call is given.
C3_CacheIdempotent ==
    frozen_cache.some =>
        /\ SameCache(Cache, frozen_cache.v)
        /\ has_gathered_fixed_data

\* a later call, under a value model other than the first one's, has run its
\* builder to the end over a cache frozen before
C3_Witness ==
    /\ frozen_cache.some
    /\ Len(returned) = 2
    /\ returned[1].q_network # returned[2].q_network
    /\ returned[1].stats.all_policy_probs # returned[2].stats.all_policy_probs
    /\ N > 1
    /\ Len(frozen_cache.v.all_actions.v) = N

\* C4 (batch invariance): on one dataset and under one value model, the
\* records the builder returns are the same whatever the batch size.
C4_BatchInvariance ==
    \A x, y \in 1..Len(returned) :
        returned[x].q_network = returned[y].q_network
            => returned[x].stats = returned[y].stats

\* C5 (one-way cache): has_gathered_fixed_data starts false; a step that
\* sets it is the end of the first builder pass to get there; once true it
\* stays true; it is true once a builder pass has returned; and the cache's
\* arrays change only in steps that start with the flag false.
C5_Step ==
    /\ has_gathered_fixed_data => has_gathered_fixed_data'
    /\ (~has_gathered_fixed_data /\ has_gathered_fixed_data')
           => (pc = "loop" /\ ~(i < NumBatches) /\ returned = <<>>)
    /\ returned' # <<>> => has_gathered_fixed_data'
    /\ ~SameCache(Cache, Cache') => ~has_gathered_fixed_data
C6_ImportanceRatio ==
    BuilderReturned =>
        /\ Len(stats.new_policy_prob) = N
        /\ Len(stats.all_old_policy_probs) = N
        /\ Len(stats.rho_all_dataset) = N
        /\ \A k \in 1..N :
              LET t == stream[k]
                  rho == stats.rho_all_dataset[k]
              IN /\ stats.new_policy_prob[k] = ExpectedNewProb(q_network, t)
                 /\ stats.all_old_policy_probs[k] = ExpectedOldProb(t)
                 /\ rho[1] = stats.new_policy_prob[k]
                 /\ rho[2] = stats.all_old_policy_probs[k]
                 /\ ExpectedOldProb(t) > 0 => (rho[1] >= 0 /\ rho[2] > 0)

\* position before the first transition of episode e in the flattening
RECURSIVE Offset(_, _)
Offset(episodes, e) == IF e = 1 THEN 0 ELSE Offset(episodes, e - 1) + Len(episodes[e - 1])

\* s lists the transitions of the episodes, episode after episode, each in
\* time order, and nothing else
IsFlatteningOf(s, episodes) ==
    /\ Len(s) = Offset(episodes, Len(episodes) + 1)
    /\ \A e \in 1..Len(episodes) : \A j \in 1..Len(episodes[e]) :
           s[Offset(episodes, e) + j] = episodes[e][j]

\* C7 (flattened once): the step that stores a flattening stores the one of
\* the episodes that call was handed, and a stored flattening never changes.
C7_Step ==
    /\ dataset_as_transitions.some => dataset_as_transitions' = dataset_as_transitions
    /\ (~dataset_as_transitions.some /\ dataset_as_transitions'.some)
           => IsFlatteningOf(dataset_as_transitions'.v, dataset_as_episodes')
    /\ pc' = "loop" => dataset_as_transitions'.some
C7_FlattenOnce == [][C7_Step]_vars

\* a later call, handed other episodes, is in its builder pass over the
\* stream the first call stored
C7_Witness ==
    /\ LaterCall
    /\ pc = "loop"
    /\ i > 0
    /\ N > 1
    /\ ~IsFlatteningOf(stream, dataset_as_episodes)
    /\ IsFlatteningOf(stream, flattened_from.v)

\* C8 (rejected before any computation): a call with an empty episode
\* collection or a batch size <= 0 raises, has queried no model, and leaves
\* the OpeManager and the transitions as it found them.
C8_RejectedUntouched ==
    (pc = "idle" /\ calls > 0 /\ (dataset_as_episodes = <<>> \/ batch_size <= 0))
        => /\ outcome = "raised"
           /\ log = <<>>
           /\ info = pre.info
           /\ dataset_as_transitions = pre.dataset_as_transitions
           /\ has_gathered_fixed_data = pre.has_gathered_fixed_data
           /\ SameCache(Cache, pre.cache)

\* C9 (other dataset rejected): no call that was handed an episode
\* collection other than the one flattened returns a report whose ips, dm
\* and dr come from the stored stream and whose seq_dr and wis come from the
\* collection handed in.
C9_OtherDatasetRejected ==
    ~ /\ pc = "idle"
      /\ outcome = "returned"
      /\ dataset_as_episodes # flattened_from.v
      /\ report.v.ips.of = stats
      /\ Len(stats.all_actions) = Len(Flatten(flattened_from.v))
      /\ report.v.seq_dr.episodes = dataset_as_episodes
      /\ report.v.wis.episodes = dataset_as_episodes

EstimatorOps == {"doubly_robust.evaluate", "sequential_doubly_robust.evaluate",
                 "weighted_importance_sampling.evaluate"}
Failed == \E k \in 1..Len(log) : ~log[k].ok

\* C10 (report only on success): a report exists exactly when the call
\* returned; then the builder and the three estimators all returned in this
\* call, and the report's five fields are the three results of the
\* doubly-robust estimator on this call's record, the sequential estimator's
\* result and the weighted-importance-sampling estimator's result; a call in
\* which a collaborator failed raises and leaves no report.
C10_ReportOnlyOnSuccess ==
    /\ report.some <=> outcome = "returned"
    /\ outcome = "returned" =>
          /\ pc = "idle"
          /\ BuilderReturned
          /\ ~Failed
          /\ Len(log) >= 3
          /\ \A k \in 1..Len(log) : log[k].op \in EstimatorOps <=> k > Len(log) - 3
          /\ DOMAIN report.v = {"ips", "dm", "dr", "seq_dr", "wis"}
          /\ report.v.ips = DoublyRobustEvaluate(stats)[1]
          /\ report.v.dm = DoublyRobustEvaluate(stats)[2]
          /\ report.v.dr = DoublyRobustEvaluate(stats)[3]
          /\ report.v.seq_dr = SequentialDoublyRobustEvaluate(dataset_as_episodes,
                                                              discount_factor)
          /\ report.v.wis = WeightedImportanceSamplingEvaluate(dataset_as_episodes)
    /\ Failed => (pc = "idle" /\ outcome = "raised" /\ error # "")

\* a later call returned a report
C10_Witness ==
    /\ LaterCall
    /\ outcome = "returned"
    /\ report.some
    /\ N > 1
    /\ Len(stats.all_actions) = N

\* a call in which the last estimator failed
C10_WitnessFailure ==
    /\ Failed
    /\ log[Len(log)].op = "weighted_importance_sampling.evaluate"

\* ---------------------------------------------------------------- C11
\* the last call queried a model whose answer has a row count other than the
\* batch's transition count
QueriedMisconfigured ==
    \E k \in 1..Len(log) :
        /\ log[k].ok
        /\ \/ log[k].op = "reward_model.predict" /\ model_rows.reward_model # 0
           \/ log[k].op = "q_network.predict" /\ model_rows.q_network # 0

\* C11: whenever, in some batch of a pass, the value model or the reward
\* model answered with a number of rows other than the batch's transition
\* count, the Builder returns no SharedStats record (the pass fails instead).
C11_MisconfiguredRejected == QueriedMisconfigured => ~BuilderReturned

\* ---------------------------------------------------------------- C12
\* some transition of the stored stream has no 'all_action_probabilities'
StreamLacksProbs == dataset_as_transitions.some /\ ~HasAllProbs(stream)

\* C12: whenever some transition of the stream has no
\* 'all_action_probabilities' entry, the Builder returns no SharedStats record
\* (it fails with a missing-key error), on the first pass over the stream and
\* on every later one.
C12_MissingKeyRejected == StreamLacksProbs => ~BuilderReturned

\* ---------------------------------------------------------------- C13
\* the transitions the last call handed to op, in the order it handed them
RECURSIVE QueriedBy(_, _)
QueriedBy(op, k) ==
    IF k = 0 THEN <<>>
    ELSE QueriedBy(op, k - 1) \o (IF log[k].op = op THEN log[k].batch ELSE <<>>)
ValueModelQueries == QueriedBy("q_network.predict", Len(log))
RewardModelQueries == QueriedBy("reward_model.predict", Len(log))
IsPrefix(x, y) == Len(x) <= Len(y) /\ x = SubSeq(y, 1, Len(x))
FirstPassReturned == returned # <<>> /\ returned[1].call = 1

\* C13 as stated: in every successful evaluate call the value model is
\* queried exactly once for each transition of the stream, batch by batch in
\* stream order; over the whole lifetime of the OpeManager the reward model
\* is queried exactly once for each transition, never a second time.
C13_InferenceCounts ==
    /\ outcome = "returned" => ValueModelQueries = stream
    /\ \A t \in Trans : rm_queried[t] <= 1
    /\ outcome = "returned" => \A k \in 1..N : rm_queried[stream[k]] = 1

\* C13 amended: in every successful evaluate call the value model is queried
\* exactly once for each transition of the stream, batch by batch in stream
\* order.  The reward model is queried only by a pass that found
\* has_gathered_fixed_data false, at most once per transition within the
\* pass and in stream order; when the pass of the first evaluate call
\* returned, every transition of the stream has been queried exactly once in
\* the lifetime and no other transition ever.
C13_InferenceCountsPerPass ==
    /\ outcome = "returned" => ValueModelQueries = stream
    /\ RewardModelQueries # <<>> =>
           (~pre.has_gathered_fixed_data /\ IsPrefix(RewardModelQueries, stream))
    /\ FirstPassReturned =>
           \A t \in Trans : rm_queried[t] = (IF InBatch(t, stream) THEN 1 ELSE 0)

\* a later call has succeeded on a stream of several transitions after the
\* first call's pass gathered them batch by batch
C13_Witness ==
    /\ FirstPassReturned
    /\ LaterCall
    /\ outcome = "returned"
    /\ N > 1
    /\ returned[1].batch_size = 1
    /\ \A k \in 1..N : rm_queried[stream[k]] = 1

\* ---------------------------------------------------------------- C14
\* the three derived values of transition t under value model qn
ExpectedInfo(qn, t) ==
    [has |-> TRUE,
     q_value |-> QRow(qn, TState(t)),
     softmax_policy_prob |-> SoftmaxRow(qn, TState(t)),
     v_value_q_model_based |-> RowDot(SoftmaxRow(qn, TState(t)), QRow(qn, TState(t)))]

\* C14: after every successful Builder pass each transition of the stream
\* carries 'q_value', 'softmax_policy_prob' and 'v_value_q_model_based' as
\* the current call's value model gives them for that transition (whatever an
\* earlier call attached is overwritten), and the transitions outside the
\* stream carry what they carried when the call began.
C14_DerivedValues ==
    BuilderReturned =>
        \A t \in Trans :
            info[t] = (IF InBatch(t, stream) THEN ExpectedInfo(q_network, t) ELSE pre.info[t])

\* a later pass with another value model has overwritten what the first attached
C14_Witness ==
    /\ BuilderReturned
    /\ LaterCall
    /\ N > 1
    /\ batch_size > 1
    /\ pre.info[stream[N]].has
    /\ pre.info[stream[N]] # info[stream[N]]

\* ---------------------------------------------------------------- C15
\* lines 137, 138, 139 in order
EstimatorOrder == <<"doubly_robust.evaluate", "sequential_doubly_robust.evaluate",
                    "weighted_importance_sampling.evaluate">>

\* the estimator calls among the first k collaborator calls of the last call
RECURSIVE EstimatorCalls(_)
EstimatorCalls(k) ==
    IF k = 0 THEN <<>>
    ELSE EstimatorCalls(k - 1) \o (IF log[k].op \in EstimatorOps THEN <<log[k]>> ELSE <<>>)

\* C15: within one evaluate call every model query of the Builder pass comes
\* before every estimator call; when the first estimator is called the pass
\* has gone over the whole stream, attached the derived values to every
\* transition and built the record; the estimators are called in the order
\* doubly robust, sequential doubly robust, weighted importance sampling, each
\* at most once and each only after the one before returned; the report
\* exists only after all three returned.
C15_Ordering ==
    LET est == EstimatorCalls(Len(log))
        nb == Len(log) - Len(est)
    IN /\ \A k \in 1..Len(log) : (k <= nb) <=> (log[k].op \notin EstimatorOps)
       /\ Len(est) <= Len(EstimatorOrder)
       /\ \A k \in 1..Len(est) :
              /\ est[k].op = EstimatorOrder[k]
              /\ k < Len(est) => est[k].ok
       /\ est # <<>> =>
              /\ BuilderReturned
              /\ ValueModelQueries = stream
              /\ \A k \in 1..N : info[stream[k]] = ExpectedInfo(q_network, stream[k])
       /\ (report.some \/ outcome = "returned") =>
              /\ report.some /\ outcome = "returned"
              /\ Len(est) = Len(EstimatorOrder)
              /\ \A k \in 1..Len(est) : est[k].ok
       /\ pc = "doubly_robust" => est = <<>>
       /\ pc = "sequential_doubly_robust" => Len(est) = 1
       /\ pc = "weighted_importance_sampling" => Len(est) = 2

\* a call over several batches has returned its report
C15_Witness ==
    /\ outcome = "returned"
    /\ report.some
    /\ N > 1
    /\ batch_size = 1
    /\ Len(log) > Len(EstimatorOrder) + N

\* ---------------------------------------------------------------- C16
\* the last call was handed the dataset of the stored stream and a batch
\* size of at least 1, and none of its collaborators raised
WellFormedCall ==
    /\ dataset_as_transitions.some
    /\ Flatten(dataset_as_episodes) = stream
    /\ batch_size >= 1
    /\ ~Failed

\* C16: once the first evaluate call has succeeded, every later evaluate
\* call on the same OpeManager with the same dataset, models that answer, and
\* a batch size of at least 1 (equal to, smaller or larger than the first
\* call's) ends without error, on the cache the first call populated.
C16_Reentrant ==
    (first_outcome = "returned" /\ LaterCall /\ pc = "idle" /\ WellFormedCall) =>
        (outcome = "returned" /\ pre.has_gathered_fixed_data /\ SameCache(pre.cache, Cache))

\* ---------------------------------------------------------------- C17
\* the cache as __init__ leaves it (lines 43-47)
EmptyCache(c) ==
    /\ c.all_reward_model_rewards = <<>>
    /\ ~c.all_reward_model_rewards_np.some
    /\ c.all_old_policy_probs = PyList(<<>>)
    /\ c.all_rewards = PyList(<<>>)
    /\ c.all_actions = PyList(<<>>)

\* the last call was a first pass (it found the cache empty and the flag
\* false) that failed inside the loop: a model's predict raised, or a
\* transition of the batch had no 'all_action_probabilities'
FirstPassFailedPartWay ==
    /\ pc = "idle"
    /\ outcome = "raised"
    /\ error \in {"RewardModelError", "QNetworkError", "KeyError"}
    /\ ~pre.has_gathered_fixed_data
    /\ EmptyCache(pre.cache)

\* C17: a first Builder pass that fails part-way leaves the cache empty and
\* has_gathered_fixed_data false: no per-batch entry of the failed pass
\* remains.
C17_FailureAtomic ==
    FirstPassFailedPartWay => (EmptyCache(Cache) /\ ~has_gathered_fixed_data)
====
